---- MODULE Spec2Model ----
(***************************************************************************)
(* SourcesEditor (colrev/ui_web/src/components/sources/SourcesEditor.tsx). *)
(*                                                                         *)
(* The component receives a list prop `sources` and a callback prop        *)
(* `sourcesChanged`.  Source records and arrays are JavaScript objects, so *)
(* both are modelled as heaps indexed by reference: `heap` holds the Source*)
(* records, `arrays` holds the arrays, and a reference is an index.        *)
(***************************************************************************)
EXTENDS Integers, Sequences, FiniteSets, TLC

\* ---------------------------------------------------------------- bounds
MaxObjs == 1         \* distinct Source objects in the initial sources list
MaxLen == 2          \* longest initial sources list
MaxActions == 2      \* number of UI events fired in one run

\* ------------------------------------------------------------ value sets
Values == {"", "a"}                         \* event.target.value
Scripts == {"s1", "s2"}                     \* Script object references
Undefined == "undefined"                    \* the JavaScript value undefined
ScriptLists == {<<>>} \cup {<<s>> : s \in Scripts}
                 \cup {<<s, t>> : s \in Scripts, t \in Scripts}

FlatFields == {"filename", "searchType", "sourceName", "sourceIdentifier",
               "comment"}
AllFields == FlatFields \cup {"searchParameters", "loadConversionScript"}

\* searchParameters.scope.path as nested objects; either level may be
\* undefined at run time (TypeScript types are erased).
Absent == [kind |-> "undefined"]
Scope(p) == [kind |-> "object", path |-> p]
SearchParams(sc) == [kind |-> "object", scope |-> sc]

Source(fn, st, sn, si, sp, lcs, c) ==
    [filename |-> fn, searchType |-> st, sourceName |-> sn,
     sourceIdentifier |-> si, searchParameters |-> sp,
     loadConversionScript |-> lcs, comment |-> c]

\* new Source(): a default-valued record
NewSource == Source("", "", "", "", SearchParams(Scope("")), "s1", "")

\* records the parent may supply that conform to the Source type
TypedRecords == {NewSource,
                 Source("a", "a", "a", "a", SearchParams(Scope("a")), "s2", "a")}
\* records that lack searchParameters or searchParameters.scope
UntypedRecords == {Source("a", "", "", "", Absent, "s1", ""),
                   Source("a", "", "", "", SearchParams(Absent), "s1", "")}

VARIABLES heap,      \* Source objects: reference -> record
          arrays,    \* array objects: reference -> sequence of Source refs
          sources,   \* the sources prop: reference of the array rendered
          calls,     \* arrays passed to sourcesChanged by the last handler
          event,     \* the UI event handled last
          error,     \* outcome of the last handler
          editors,   \* scripts prop given to each panel's ScriptsEditor
          shadow,    \* the actions so far applied, in order, to the initial list
          nActions   \* number of events handled

vars == <<heap, arrays, sources, calls, event, error, editors, shadow,
          nActions>>

NoEvent == [op |-> "none", pos |-> 0, target |-> 0, field |-> "-",
            value |-> "", scripts |-> <<>>]
Ev(op, pos, target, field, value, scripts) ==
    [op |-> op, pos |-> pos, target |-> target, field |-> field,
     value |-> value, scripts |-> scripts]

Range(s) == {s[i] : i \in 1..Len(s)}

\* a closure that keeps the list of the first render
props_sources_stale(arrs, src) == arrs[1]

\* the list the handlers of this render close over
props_sources(arrs, src) == arrs[src]

\* [...sources]: a new array with the same element references
spread(L) == [i \in 1..Len(L) |-> L[i]]

\* the callback invoked a second time with the same array
sourcesChanged_twice(cs, newSources) == Append(Append(cs, newSources), newSources)

\* sourcesChanged(newSources): one invocation of the callback prop
sourcesChanged(cs, newSources) == Append(cs, newSources)

\* removal of the first matching position only (indexOf + splice)
filter_firstOnly(h, L, source) ==
    IF \E i \in 1..Len(L) : L[i] = source
    THEN LET k == CHOOSE i \in 1..Len(L) :
                      L[i] = source /\ \A m \in 1..(i - 1) : L[m] # source
         IN  SubSeq(L, 1, k - 1) \o SubSeq(L, k + 1, Len(L))
    ELSE L

\* removal of every entry whose field values equal the target's
filter_byValue(h, L, source) == SelectSeq(L, LAMBDA s : h[s] # h[source])

\* sources.filter((s) => s !== source); !== on objects compares references,
\* the records h[s] and h[source] are not consulted
filter(h, L, source) == SelectSeq(L, LAMBDA s : s # source)

\* the new record put in front of the list
spreadAppend_prepend(L, n) == <<n>> \o spread(L)

\* [...sources, new Source()]
spreadAppend(L, n) == Append(spread(L), n)

\* the field name ignored
setField_filename(rec, fieldName, newValue) == [rec EXCEPT !.filename = newValue]

\* source[fieldName] = newValue
setField(rec, fieldName, newValue) == [rec EXCEPT ![fieldName] = newValue]

\* evaluating source.searchParameters.scope.path = ... raises a TypeError
\* when searchParameters or searchParameters.scope is undefined
scopePathThrows(rec) ==
    \/ rec.searchParameters.kind = "undefined"
    \/ rec.searchParameters.scope.kind = "undefined"

\* the path written to the comment as well
setScopePath_andComment(rec, newValue) ==
    [rec EXCEPT !.searchParameters.scope.path = newValue, !.comment = newValue]

\* source.searchParameters.scope.path = newValue
setScopePath(rec, newValue) ==
    [rec EXCEPT !.searchParameters.scope.path = newValue]

\* scripts[0]: undefined for an empty array
Index0(scripts) == IF Len(scripts) = 0 THEN Undefined ELSE scripts[1]

\* the last script taken instead of the first
setScript_last(rec, scripts) ==
    [rec EXCEPT !.loadConversionScript =
         IF Len(scripts) = 0 THEN Undefined ELSE scripts[Len(scripts)]]

\* source.loadConversionScript = scripts[0]
setScript(rec, scripts) ==
    [rec EXCEPT !.loadConversionScript = Index0(scripts)]

\* what a handler leaves behind: the heaps, the callback invocations it made
\* and whether it completed ("none") or raised
Outcome(h, arrs, cs, err) ==
    [heap |-> h, arrays |-> arrs, calls |-> cs, error |-> err]

\* the prop array itself handed to the callback
sourcesChangedHandler_sameArray(h, arrs, src, cs) ==
    Outcome(h, arrs, sourcesChanged(cs, src), "none")

\* sourcesChangedHandler: allocate the copy, invoke the callback with it
sourcesChangedHandler(h, arrs, src, cs) ==
    LET newSources == Len(arrs) + 1
    IN  Outcome(h, Append(arrs, spread(props_sources(arrs, src))),
                sourcesChanged(cs, newSources), "none")

\* deleteSourceHandler
deleteSourceHandler(h, arrs, src, cs, source) ==
    LET newSources == Len(arrs) + 1
    IN  Outcome(h, Append(arrs, filter(h, props_sources(arrs, src), source)),
                sourcesChanged(cs, newSources), "none")

\* addSourceHandler; new Source() allocates the record
addSourceHandler(h, arrs, src, cs) ==
    LET n == Len(h) + 1
        newSources == Len(arrs) + 1
    IN  Outcome(Append(h, NewSource),
                Append(arrs, spreadAppend(props_sources(arrs, src), n)),
                sourcesChanged(cs, newSources), "none")

\* fieldChangedHandler
fieldChangedHandler(h, arrs, src, cs, fieldName, source, newValue) ==
    sourcesChangedHandler(
        [h EXCEPT ![source] = setField(h[source], fieldName, newValue)],
        arrs, src, cs)

\* optional chaining: the write is skipped when a level is undefined
searchParametersScopePathChangedHandler_guarded(h, arrs, src, cs, source, newValue) ==
    IF scopePathThrows(h[source])
    THEN sourcesChangedHandler(h, arrs, src, cs)
    ELSE sourcesChangedHandler(
             [h EXCEPT ![source] = setScopePath(h[source], newValue)],
             arrs, src, cs)

\* searchParametersScopePathChangedHandler
searchParametersScopePathChangedHandler(h, arrs, src, cs, source, newValue) ==
    IF scopePathThrows(h[source])
    THEN Outcome(h, arrs, cs, "TypeError")
    ELSE sourcesChangedHandler(
             [h EXCEPT ![source] = setScopePath(h[source], newValue)],
             arrs, src, cs)

\* the scriptsChanged callback handed to the ScriptsEditor of a panel
scriptsChanged(h, arrs, src, cs, source, scripts) ==
    sourcesChangedHandler(
        [h EXCEPT ![source] = setScript(h[source], scripts)], arrs, src, cs)

\* the parent stores the array it was handed and renders the component
\* again with it as the sources prop
ParentRender(cs, src) == IF cs = <<>> THEN src ELSE cs[Len(cs)]

\* sources.map(... <ScriptsEditor scripts={[source.loadConversionScript]} />)
RenderScriptsEditors(h, L) ==
    [i \in 1..Len(L) |-> <<h[L[i]].loadConversionScript>>]

\* ------------------------------------------------- the abstract list edits
ShadowAdd(L, n) == L \o <<n>>
ShadowDelete(L, t) == SelectSeq(L, LAMBDA s : s # t)

\* ------------------------------------------------------------------ Init
InitWith(Records) ==
    /\ \E n \in 0..MaxObjs :
         /\ heap \in [1..n -> Records]
         /\ \E k \in 0..MaxLen : \E L \in [1..k -> 1..n] :
              /\ Range(L) = 1..n
              /\ arrays = <<L>>
              /\ shadow = L
              /\ editors = RenderScriptsEditors(heap, L)
    /\ sources = 1
    /\ calls = <<>>
    /\ event = NoEvent
    /\ error = "none"
    /\ nActions = 0

Init == InitWith(TypedRecords)
InitUntyped == InitWith({NewSource} \cup UntypedRecords)

\* --------------------------------------------------------------- actions
\* one UI event: its handler runs to the end; if the callback was invoked the
\* parent renders the component again
Handle(r, ev) ==
    /\ nActions < MaxActions
    /\ heap' = r.heap
    /\ arrays' = r.arrays
    /\ calls' = r.calls
    /\ error' = r.error
    /\ sources' = ParentRender(r.calls, sources)
    /\ editors' = IF r.calls = <<>> THEN editors
                  ELSE RenderScriptsEditors(
                           r.heap, r.arrays[ParentRender(r.calls, sources)])
    /\ event' = ev
    /\ nActions' = nActions + 1

\* click on Add
Add ==
    /\ shadow' = ShadowAdd(shadow, Len(heap) + 1)
    /\ Handle(addSourceHandler(heap, arrays, sources, <<>>),
              Ev("add", 0, Len(heap) + 1, "-", "", <<>>))

\* click on the delete button of panel i
Delete ==
    \E i \in 1..Len(props_sources(arrays, sources)) :
      LET source == props_sources(arrays, sources)[i]
      IN  /\ shadow' = ShadowDelete(shadow, source)
          /\ Handle(deleteSourceHandler(heap, arrays, sources, <<>>, source),
                    Ev("delete", i, source, "-", "", <<>>))

\* input in one of the five text fields of panel i
FieldChanged ==
    \E i \in 1..Len(props_sources(arrays, sources)) :
    \E fieldName \in FlatFields : \E newValue \in Values :
      LET source == props_sources(arrays, sources)[i]
      IN  /\ shadow' = shadow
          /\ Handle(fieldChangedHandler(heap, arrays, sources, <<>>,
                                        fieldName, source, newValue),
                    Ev("field", i, source, fieldName, newValue, <<>>))

\* input in the scope path field of panel i
ScopePathChanged ==
    \E i \in 1..Len(props_sources(arrays, sources)) :
    \E newValue \in Values :
      LET source == props_sources(arrays, sources)[i]
      IN  /\ shadow' = shadow
          /\ Handle(searchParametersScopePathChangedHandler(
                        heap, arrays, sources, <<>>, source, newValue),
                    Ev("scopePath", i, source, "-", newValue, <<>>))

\* the ScriptsEditor of panel i reports a script list
ScriptsChanged ==
    \E i \in 1..Len(props_sources(arrays, sources)) :
    \E scripts \in ScriptLists :
      LET source == props_sources(arrays, sources)[i]
      IN  /\ shadow' = shadow
          /\ Handle(scriptsChanged(heap, arrays, sources, <<>>, source, scripts),
                    Ev("script", i, source, "-", "", scripts))

Next == Add \/ Delete \/ FieldChanged \/ ScopePathChanged \/ ScriptsChanged

Spec == Init /\ [][Next]_vars
SpecUntyped == InitUntyped /\ [][Next]_vars

\* ------------------------------------------------------------ properties
\* In the action formulas the unprimed variables are the state in which the
\* event fires and the primed ones the state its handler leaves.
Edits == {"field", "scopePath", "script"}
Occurrences(L, t) == {i \in 1..Len(L) : L[i] = t}
Count(L, t) == Cardinality(Occurrences(L, t))
\* the j-th position of L that does not hold t
NthOther(L, t, j) ==
    CHOOSE i \in 1..Len(L) :
        /\ L[i] # t
        /\ Cardinality({m \in 1..i : L[m] # t}) = j
WellFormed(rec) ==
    /\ rec.searchParameters.kind = "object"
    /\ rec.searchParameters.scope.kind = "object"

\* C1: add invokes sourcesChanged with an array of length |L|+1 whose first
\* |L| entries are those of L, same references in the same order, and whose
\* last entry is a newly constructed default Source distinct from every entry
\* of L; no existing record is changed.
C1_AddAppendsOneDefault ==
    [][event'.op = "add" =>
         LET L == arrays[sources]
             P == arrays'[calls'[1]]
         IN  /\ Len(calls') = 1
             /\ Len(P) = Len(L) + 1
             /\ \A i \in 1..Len(L) : P[i] = L[i]
             /\ P[Len(P)] \notin Range(L)
             /\ P[Len(P)] \notin DOMAIN heap
             /\ heap'[P[Len(P)]] = NewSource
             /\ \A o \in DOMAIN heap : heap'[o] = heap[o]]_vars
C1_Witness ==
    /\ event.op = "add"
    /\ Len(arrays[sources]) = 3
    /\ arrays[sources][3] = event.target

C3_FieldEditFrame ==
    [][event'.op = "field" =>
         LET L == arrays[sources]
             P == arrays'[calls'[1]]
             r == event'.target
             f == event'.field
         IN  /\ r = L[event'.pos]
             /\ f \in FlatFields
             /\ heap'[r][f] = event'.value
             /\ \A g \in AllFields \ {f} : heap'[r][g] = heap[r][g]
             /\ DOMAIN heap' = DOMAIN heap
             /\ \A o \in DOMAIN heap \ {r} : heap'[o] = heap[o]
             /\ Len(P) = Len(L)
             /\ \A j \in 1..Len(L) : P[j] = L[j]]_vars
C3_Witness ==
    /\ event.op = "field"
    /\ event.field = "comment"
    /\ Cardinality(Range(arrays[sources])) >= 2
    /\ heap[event.target].comment = event.value
    /\ heap[event.target].filename # event.value

\* C4: a scope-path edit sets r.searchParameters.scope.path to the input
\* value and nothing else: the flat fields and loadConversionScript of r and
\* all fields of every other record are unchanged.
C4_ScopePathEditFrame ==
    [][event'.op = "scopePath" =>
         LET r == event'.target
         IN  /\ r = arrays[sources][event'.pos]
             /\ error' = "none"
             /\ heap'[r].searchParameters = SearchParams(Scope(event'.value))
             /\ \A g \in AllFields \ {"searchParameters"} :
                    heap'[r][g] = heap[r][g]
             /\ DOMAIN heap' = DOMAIN heap
             /\ \A o \in DOMAIN heap \ {r} : heap'[o] = heap[o]]_vars
C4_Witness ==
    /\ event.op = "scopePath"
    /\ Cardinality(Range(arrays[sources])) >= 2
    /\ heap[event.target].searchParameters.scope.path = "a"
    /\ heap[event.target].filename = ""
    /\ \E o \in Range(arrays[sources]) :
           heap[o].searchParameters.scope.path = ""

\* C5: every user action invokes sourcesChanged exactly once.
C5_CallbackExactlyOnce ==
    /\ (event.op = "none") = (nActions = 0)
    /\ event.op # "none" => Len(calls) = 1
C5_Witness ==
    /\ nActions = MaxActions
    /\ event.op = "script"
    /\ Len(calls) = 1

\* C6: the array passed to sourcesChanged is newly allocated, never the prop
\* array, and no existing array is modified; for the edit actions it holds the
\* same references at the same positions as the prop, so the edited record is
\* one object reachable through both arrays.
C6_NewArraySameElements ==
    [][Len(calls') >= 1 =>
         LET p == calls'[1]
         IN  /\ p # sources
             /\ p \notin DOMAIN arrays
             /\ p \in DOMAIN arrays'
             /\ \A a \in DOMAIN arrays : arrays'[a] = arrays[a]
             /\ event'.op \in Edits =>
                  /\ Len(arrays'[p]) = Len(arrays'[sources])
                  /\ \A j \in 1..Len(arrays'[p]) :
                         arrays'[p][j] = arrays'[sources][j]
                  /\ arrays'[sources][event'.pos] = event'.target
                  /\ event'.op = "field" =>
                       heap'[arrays'[sources][event'.pos]][event'.field]
                           = event'.value]_vars
C6_Witness ==
    /\ event.op = "field"
    /\ Len(arrays) = 3
    /\ sources = 3
    /\ arrays[2] = arrays[3]
    /\ Len(arrays[3]) = 2
    /\ heap[arrays[2][event.pos]][event.field] = "a"

C8_DeleteByReference ==
    [][event'.op = "delete" =>
         LET L == arrays[sources]
             P == arrays'[calls'[1]]
             t == event'.target
         IN  /\ Count(P, t) = 0
             /\ \A o \in DOMAIN heap : o # t => Count(P, o) = Count(L, o)]_vars
C8_Witness ==
    /\ event.op = "delete"
    /\ event.target \notin Range(arrays[sources])
    /\ \E o \in Range(arrays[sources]) : heap[o] = heap[event.target]

\* C9: each handler starts from the list the previous action produced: the
\* list last passed to the callback is the initial list with all actions
\* applied in firing order; two adds in a row leave two new records, and an
\* add followed by a delete of another record keeps the added record.
C9_NoActionLost ==
    /\ [](/\ arrays[sources] = shadow
          /\ calls # <<>> => arrays[calls[Len(calls)]] = shadow)
    /\ [][/\ (event.op = "add" /\ event'.op = "add") =>
               LET L == arrays'[sources']
               IN  /\ Len(L) = Len(arrays[sources]) + 1
                   /\ L[Len(L) - 1] = event.target
                   /\ L[Len(L)] = event'.target
                   /\ event.target # event'.target
          /\ (event.op = "add" /\ event'.op = "delete"
                /\ event'.target # event.target) =>
               event.target \in Range(arrays'[sources'])]_vars
C9_Witness ==
    /\ nActions = 2
    /\ event.op = "delete"
    /\ Len(arrays) = 3
    /\ Len(arrays[2]) = Len(arrays[1]) + 1
    /\ Len(arrays[3]) < Len(arrays[2])
    /\ arrays[2][Len(arrays[2])] \in Range(arrays[sources])

\* C10: a script list S reported for r sets r.loadConversionScript to the
\* first element of S itself (undefined when S is empty), leaves every other
\* field and record alone and passes a shallow copy of the list; each panel's
\* script editor is given the one-element list <<r.loadConversionScript>>.
C10_ScriptPassedThrough ==
    /\ [](/\ Len(editors) = Len(arrays[sources])
          /\ \A i \in 1..Len(editors) :
                 /\ Len(editors[i]) = 1
                 /\ editors[i][1] = heap[arrays[sources][i]].loadConversionScript)
    /\ [][event'.op = "script" =>
            LET r == event'.target
                S == event'.scripts
                P == arrays'[calls'[1]]
            IN  /\ Len(S) > 0 => heap'[r].loadConversionScript = S[1]
                /\ Len(S) = 0 => heap'[r].loadConversionScript = Undefined
                /\ \A g \in AllFields \ {"loadConversionScript"} :
                       heap'[r][g] = heap[r][g]
                /\ \A o \in DOMAIN heap \ {r} : heap'[o] = heap[o]
                /\ calls'[1] \notin DOMAIN arrays
                /\ P = arrays[sources]]_vars
C10_Witness ==
    /\ event.op = "script"
    /\ event.scripts = <<"s2", "s1">>
    /\ heap[event.target].loadConversionScript = "s2"
    /\ Cardinality(Range(arrays[sources])) >= 2
    /\ editors[event.pos] = <<"s2">>

====
